---- MODULE Spec2Model ----
(***************************************************************************)
(* State-machine model of sipedon's simulation engine                      *)
(* (src/sipedon/classes.py): Position, Food, Fish, Aquarium.               *)
(*                                                                         *)
(* Objects live in a heap `ent` (a sequence of records, the index is the   *)
(* object's identity); `children` is Aquarium.children, a list of          *)
(* references into that heap.  A Food removed from `children` stays in     *)
(* the heap, as it does in Python while a Fish still references it.        *)
(*                                                                         *)
(* Aquarium.update() is modelled as its for-loop: UpdateBegin creates the  *)
(* list iterator, UpdateChild runs one iteration of the loop body,         *)
(* UpdateReturn is the exhausted iterator and `return True`.  No other     *)
(* operation runs while the loop is in progress (single-threaded host).    *)
(***************************************************************************)
EXTENDS Integers, Sequences, FiniteSets, TLC

(***************************************************************************)
(* Bounds of the model                                                     *)
(***************************************************************************)
MaxFish == 2
MaxFood == 1
MaxTicks == 2
MaxMoves == 1
\* lifetimes are told apart up to MaxLifetime, which no run of at most
\* MaxTicks updates reaches
MaxLifetime == MaxTicks + 1
\* the shoal: more fish than a food admits targeters
ShoalFish == 3
\* the stock: enough fish for a second "every third" fish, two foods
StockFish == 4
StockFood == 2
StockTicks == 1
\* the scatter: fish added at random positions
ScatterFish == 2
\* the pond: foods only
PondFood == 3
PondTicks == 2
\* the planner: coordinates 0..PlanSpan, positive limits 1..PlanLimit
PlanSpan == 3
PlanLimit == 2
\* the planner's loop is cut off after PathFuel iterations
PathFuel == 36
StrayFood == 2
PoiFish == 11
\* the windowed tank: Fish() constructed without a position, and updates
WindowFish == 2
WindowTicks == 2
PigmentDraws == 1     \* colours of Food.pigment_pool a new Food may draw

(***************************************************************************)
(* Inputs                                                                  *)
(***************************************************************************)
\* Aquarium(pos, width, height): constructor arguments
TankOrigins == {<<1, 1>>}
TankWidths == {4}
TankHeights == {2}
\* Aquarium.move(new): the new origins the host supplies
MoveTargets == {<<3, 2>>}
\* Fish(pos=...) / Food(pos=...): positions the host constructs entities at
FishSpecies == {"TopDweller"}
FishPositions == {<<1, 1>>, <<2, 1>>, <<30, 30>>}
FishRandomize == {FALSE}
FoodPositions == {<<3, 1>>, <<30, 30>>}
\* the shoal's host: every fish at the terminal's origin, one food in range
ShoalPositions == {<<1, 1>>}
ShoalFoodPositions == {<<3, 1>>}
\* the stock's host: fish of a species whose skin follows the heading and of
\* one whose skin does not
StockSpecies == {"MidDweller", "TopDweller"}
\* ... and foods dropped to the left of the fish
StockFoodPositions == {<<-1, 1>>}
\* the pond's host: a narrow tank, foods dropped in two adjacent columns
PondWidths == {1}
PondPositions == {<<0, 1>>, <<1, 1>>, <<1, 2>>}

(***************************************************************************)
(* Integer helpers                                                         *)
(***************************************************************************)
Abs(n) == IF n < 0 THEN -n ELSE n
Max(a, b) == IF a >= b THEN a ELSE b
Min(a, b) == IF a <= b THEN a ELSE b
SetMin(S) == CHOOSE m \in S : \A n \in S : m <= n
\* the element of a one-element set
TheOnly(S) == CHOOSE x \in S : TRUE

(***************************************************************************)
(* Position                                                                *)
(***************************************************************************)
Position(x, y) == [xcoord |-> x, ycoord |-> y]
from_tuple(data) == Position(data[1], data[2])
PosAdd(a, b) == Position(a.xcoord + b.xcoord, a.ycoord + b.ycoord)
PosSub(a, b) == Position(a.xcoord - b.xcoord, a.ycoord - b.ycoord)
\* distance_to(a, b) <= r for an integer r >= 0: sqrt is monotone, so the
\* float comparison is the comparison of the squares
distance_to_le(a, b, r) ==
    (b.xcoord - a.xcoord) * (b.xcoord - a.xcoord)
      + (b.ycoord - a.ycoord) * (b.ycoord - a.ycoord) <= r * r

\* the planner's inputs; a limit <= 0 disables the limit of its axis
PlanGrid == {Position(x, y) : x \in 0..PlanSpan, y \in 0..PlanSpan}
PlanLimits == {-1, 0} \cup (1..PlanLimit)

(***************************************************************************)
(* Program constants                                                       *)
(***************************************************************************)
TargeterLimit == 2
AcquireRange == 5
ConsumeRange == 1
IdleThreshold == 4
IdleFlipEvery == 3
TargetEvery == 3
None == 0

\* Species configuration: Fish and its subclasses.  width is
\* real_length(base_skin); bounds are in percent of the tank height.
\* reverses: Fish.skin is the property that follows the heading; a subclass
\* with a class attribute `skin` hides the property, and its instances keep
\* base_skin whatever their heading.
Species ==
    [ Fish          |-> [width |-> 4, movelimits |-> <<-1, -1>>,
                         lower_bound |-> 0, upper_bound |-> 100,
                         reverses |-> TRUE],
      BottomDweller |-> [width |-> 4, movelimits |-> <<10, 1>>,
                         lower_bound |-> 70, upper_bound |-> 100,
                         reverses |-> FALSE],
      MidDweller    |-> [width |-> 4, movelimits |-> <<-1, -1>>,
                         lower_bound |-> 30, upper_bound |-> 75,
                         reverses |-> TRUE],
      TopDweller    |-> [width |-> 4, movelimits |-> <<-1, -1>>,
                         lower_bound |-> 0, upper_bound |-> 35,
                         reverses |-> FALSE] ]
SpeciesNames == DOMAIN Species

FoodWidth == 1

\* Food.pigment_pool, and the draws of random.choice(self.pigment_pool) that
\* are followed: the first PigmentDraws colours of the pool
pigment_pool == <<255, 250, 241>>
FoodPigments == {pigment_pool[i] : i \in 1..Min(PigmentDraws, Len(pigment_pool))}

\* line 209: the darkest colour of a Food
ColorFloor == 237

\* 1 / Aquarium.poi_update_percent (0.2, src/sipedon/aquarium.py)
poi_update_inverse == 5

(***************************************************************************)
(* Fish.update_path: Bresenham's line from the fish to the (limited)       *)
(* destination, one (Position, heading) entry per step                     *)
(***************************************************************************)
Step(pos, heading) == [pos |-> pos, heading |-> heading]

\* PathEnd without the `> 0` tests: a disabled limit is applied as well
PathEndLimitsAlways(start, dest, movelimits) ==
    LET diff == PosSub(dest, start)
        xlimit == movelimits[1]
        ylimit == movelimits[2]
        endx == IF Abs(diff.xcoord) > xlimit
                THEN start.xcoord + (IF diff.xcoord > 0 THEN 1 ELSE -1) * xlimit
                ELSE dest.xcoord
        endy == start.ycoord + (IF diff.ycoord > 0 THEN 1 ELSE -1) * ylimit
    IN Position(endx, endy)

\* PathEnd with the horizontal limit applied whenever it is positive, the way
\* the vertical one is: a destination nearer than the limit is overshot
PathEndOvershoots(start, dest, movelimits) ==
    LET diff == PosSub(dest, start)
        xlimit == movelimits[1]
        ylimit == movelimits[2]
        endx == IF xlimit > 0
                THEN start.xcoord + (IF diff.xcoord > 0 THEN 1 ELSE -1) * xlimit
                ELSE dest.xcoord
        endy == IF ylimit > 0
                THEN start.ycoord + (IF diff.ycoord > 0 THEN 1 ELSE -1) * ylimit
                ELSE dest.ycoord
    IN Position(endx, endy)

\* the destination after the movelimits are applied (lines 411-420)
PathEnd(start, dest, movelimits) ==
    LET diff == PosSub(dest, start)
        xlimit == movelimits[1]
        ylimit == movelimits[2]
        endx == IF Abs(diff.xcoord) > xlimit /\ xlimit > 0
                THEN start.xcoord + (IF diff.xcoord > 0 THEN 1 ELSE -1) * xlimit
                ELSE dest.xcoord
        endy == IF ylimit > 0
                THEN start.ycoord + (IF diff.ycoord > 0 THEN 1 ELSE -1) * ylimit
                ELSE dest.ycoord
    IN Position(endx, endy)

\* the while-loop (lines 437-456); fuel is the number of iterations left
\* before the model gives the loop up
RECURSIVE Line(_, _, _, _, _, _, _, _, _, _, _)
Line(startx, starty, endx, endy, diffx, diffy, intbuff_x, intbuff_y, error, heading, fuel) ==
    LET entry == Step(Position(startx, starty), heading)
    IN IF (startx = endx /\ starty = endy) \/ fuel = 0
       THEN <<entry>>
       ELSE LET error2 == 2 * error
                movex == error2 >= diffy
                movey == error2 <= diffx
                error_x == IF movex THEN error + diffy ELSE error
                nextx == IF movex THEN startx + intbuff_x ELSE startx
                error_y == IF movey THEN error_x + diffx ELSE error_x
                nexty == IF movey THEN starty + intbuff_y ELSE starty
                \* the loop variables of the next iteration, as values
                rest == {Line(v[1], v[2], endx, endy, diffx, diffy,
                              intbuff_x, intbuff_y, v[3], heading, v[4]) :
                           v \in {<<nextx, nexty, error_y, fuel - 1>>}}
            IN <<entry>> \o TheOnly(rest)

\* update_path with the vertical direction of line 427 always downward: the
\* loop walks away from an endpoint above the start
update_path_downward(start, dest, movelimits) ==
    LET end == PathEnd(start, dest, movelimits)
        diffx == Abs(end.xcoord - start.xcoord)
        intbuff_x == IF start.xcoord < end.xcoord THEN 1 ELSE -1
        diffy == -Abs(end.ycoord - start.ycoord)
        intbuff_y == 1
        heading == intbuff_x
    IN Line(start.xcoord, start.ycoord, end.xcoord, end.ycoord,
            diffx, diffy, intbuff_x, intbuff_y, diffx + diffy, heading, PathFuel)

update_path(start, dest, movelimits) ==
    LET end == PathEnd(start, dest, movelimits)
        diffx == Abs(end.xcoord - start.xcoord)
        intbuff_x == IF start.xcoord < end.xcoord THEN 1 ELSE -1
        diffy == -Abs(end.ycoord - start.ycoord)
        intbuff_y == IF start.ycoord < end.ycoord THEN 1 ELSE -1
        heading == intbuff_x
    IN Line(start.xcoord, start.ycoord, end.xcoord, end.ycoord,
            diffx, diffy, intbuff_x, intbuff_y, diffx + diffy, heading, PathFuel)

(***************************************************************************)
(* Objects                                                                 *)
(***************************************************************************)
\* Food.__init__
NewFood(p, pigment) ==
    [ kind |-> "Food", pos |-> p, lifetime |-> 0,
      color |-> pigment,             \* the colour index of Food.skin
      endpoint |-> <<>>,             \* None; <<row>> once Aquarium.add set it
      is_static |-> FALSE, targeters |-> 0, previous_horizontal |-> 0 ]

\* Position.origin(): pytermgui's terminal.origin
origin == Position(1, 1)

\* Fish.__init__; `shares` records that `pos` is the Position object that is
\* the default of the parameter (a Fish constructed without `pos`), which
\* every such Fish holds until its pos is assigned anew; `alias` records
\* that the entries of `path` are the very Position object the fish holds
\* as `pos` (the idle path of lines 372-376),
\* so that Aquarium.clamp, which mutates that object, changes them too
NewFish(species, p) ==
    [ kind |-> "Fish", species |-> species, pos |-> p, lifetime |-> 0,
      movelimits |-> Species[species].movelimits,
      heading |-> 1, target |-> None, skip_frame |-> FALSE,
      path |-> <<>>, alias |-> FALSE, shares |-> FALSE ]

Width(e) == IF e.kind = "Fish" THEN Species[e.species].width ELSE FoodWidth

\* child.skin, without its colour markup: Fish.base_skin or its reverse
\* (Fish._reverse_skin), Food.char
base_skin == "><'>"
reversed_skin == "<'><"
char == "#"
Skin(e) ==
    IF e.kind = "Food" THEN char
    ELSE IF Species[e.species].reverses /\ e.heading = -1 THEN reversed_skin
    ELSE base_skin

IsIn(c, seq) == \E i \in 1..Len(seq) : seq[i] = c
\* list.remove(x): drops the first occurrence
Remove(seq, c) ==
    LET i == SetMin({j \in 1..Len(seq) : seq[j] = c})
    IN SubSeq(seq, 1, i - 1) \o SubSeq(seq, i + 1, Len(seq))

\* Aquarium.fish / Aquarium.food / Aquarium.has_type
OfKind(E, C, k) == SelectSeq(C, LAMBDA c : E[c].kind = k)
has_type(E, C, k) == \E i \in 1..Len(C) : E[C[i]].kind = k

\* Aquarium.get_type_at: the first child of the kind at the position, or None
get_type_at(E, C, k, p) ==
    LET hits == {i \in 1..Len(C) : E[C[i]].kind = k /\ E[C[i]].pos = p}
    IN IF hits = {} THEN None ELSE C[SetMin(hits)]

(***************************************************************************)
(* Food.update(aquarium).  horizontal and vertical are the draws of        *)
(* _get_x's random.randint(-1, 1) and of random.choice([0, 0, 1]).         *)
(* Returns the heap, the method's return value and, when line 227 assigned *)
(* a new position, the pair <<position before, position assigned>>.        *)
(***************************************************************************)
\* get_x that draws whatever the previous move was
get_x_always(food, horizontal) == horizontal

\* Food._get_x
get_x(food, horizontal) ==
    IF food.previous_horizontal = 0 THEN horizontal ELSE 0

\* lines 222-230, for the drift hmove and the candidate position new
Sink(E, c, hmove, new, competition) ==
    IF competition # None /\ E[competition].is_static
    THEN [ent |-> [E EXCEPT ![c].is_static = TRUE], ret |-> TRUE, moved |-> <<>>]
    ELSE [ent |-> [E EXCEPT ![c].pos = new, ![c].previous_horizontal = hmove],
          ret |-> TRUE, moved |-> <<E[c].pos, new>>]

\* lines 219-230
Drift(E, C, c, hmove, new) ==
    Sink(E, c, hmove, new, get_type_at(E, C, "Food", new))

\* line 209: int() truncates the float 255 - lifetime / 3, which is positive
color(lifetime) == Max(ColorFloor, 255 - (lifetime + 2) \div 3)

\* lines 209-210: the skin is parsed anew with the colour of the lifetime
Tint(E, c) == [E EXCEPT ![c].color = color(E[c].lifetime)]

\* Fall without the test of the resting row (lines 215-217)
FallNeverRests(E, C, c, horizontal, vertical) ==
    IF E[c].endpoint = <<>>
    THEN [ent |-> E, ret |-> FALSE, moved |-> <<>>]
    ELSE Drift(E, C, c, get_x(E[c], horizontal),
               PosAdd(E[c].pos, Position(get_x(E[c], horizontal), vertical)))

\* Fall that returns False for a Food that has come to rest
FallRemovesResting(E, C, c, horizontal, vertical) ==
    IF E[c].endpoint = <<>>
    THEN [ent |-> E, ret |-> FALSE, moved |-> <<>>]
    ELSE IF E[c].pos.ycoord >= E[c].endpoint[1] \/ E[c].is_static
    THEN [ent |-> [E EXCEPT ![c].is_static = TRUE], ret |-> FALSE, moved |-> <<>>]
    ELSE FallNeverRests(E, C, c, horizontal, vertical)

\* Fall with `if self.is_static` for the test of line 215
FallIfRestingOnly(E, C, c, horizontal, vertical) ==
    IF E[c].endpoint = <<>>
    THEN [ent |-> E, ret |-> FALSE, moved |-> <<>>]
    ELSE IF E[c].is_static
    THEN [ent |-> E, ret |-> TRUE, moved |-> <<>>]
    ELSE FallNeverRests(E, C, c, horizontal, vertical)

\* Fall that lets a Food without endpoint lie where it is
FallKeepsUnregistered(E, C, c, horizontal, vertical) ==
    IF E[c].endpoint = <<>>
    THEN [ent |-> E, ret |-> TRUE, moved |-> <<>>]
    ELSE FallNeverRests(E, C, c, horizontal, vertical)

\* lines 212-230
Fall(E, C, c, horizontal, vertical) ==
    IF E[c].endpoint = <<>>
    THEN [ent |-> E, ret |-> FALSE, moved |-> <<>>]
    ELSE IF E[c].pos.ycoord >= E[c].endpoint[1] \/ E[c].is_static
    THEN [ent |-> [E EXCEPT ![c].is_static = TRUE], ret |-> TRUE, moved |-> <<>>]
    ELSE Drift(E, C, c, get_x(E[c], horizontal),
               PosAdd(E[c].pos, Position(get_x(E[c], horizontal), vertical)))

\* FoodUpdate without the test of the resting row (lines 215-217)
FoodUpdateNeverRests(E, C, c, horizontal, vertical) ==
    FallNeverRests(Tint(E, c), C, c, horizontal, vertical)

FoodUpdate(E, C, c, horizontal, vertical) ==
    Fall(Tint(E, c), C, c, horizontal, vertical)

(***************************************************************************)
(* Fish.update(aquarium).  rand is the draw of random.randint(0, 5).       *)
(* Returns the heap, the children list, the method's return value,         *)
(* whether an exception left the method, and what the fish did to its      *)
(* target (pursued: the target it re-planned and stepped toward; consumed: *)
(* the target it was in range of; present: whether that one was a child).  *)
(* Values used more than once are passed as parameters.                    *)
(***************************************************************************)
\* Admits with `<=` for `<`
AdmitsOneMore(food) == food.targeters <= TargeterLimit

\* line 348: `food.targeters < 2`
Admits(food) == food.targeters < TargeterLimit

\* lines 349-351: the fish takes the food as target
Adopt(E, f, food) ==
    [E EXCEPT ![f].target = food,
              ![food].targeters = @ + 1,
              ![f].path = update_path(E[f].pos, E[food].pos, E[f].movelimits),
              ![f].alias = FALSE]

\* lines 347-348: the foods, in container order, the fish may take
Candidates(E, f, foods) ==
    {i \in 1..Len(foods) :
       /\ Admits(E[foods[i]])
       /\ distance_to_le(E[f].pos, E[foods[i]].pos, AcquireRange)}

\* FirstOf with the last food that qualifies for the first
LastOf(E, f, foods, ok) ==
    IF ok # {} THEN Adopt(E, f, foods[-SetMin({-i : i \in ok})]) ELSE E

FirstOf(E, f, foods, ok) ==
    IF ok # {} THEN Adopt(E, f, foods[SetMin(ok)]) ELSE E

Scan(E, f, foods) == FirstOf(E, f, foods, Candidates(E, f, foods))

\* lines 346-352: the first food in range that fewer than two fish target
AcquireTarget(E, C, f) ==
    IF E[f].target = None /\ has_type(E, C, "Food")
    THEN Scan(E, f, OfKind(E, C, "Food"))
    ELSE E

\* RemoveTarget without the membership test
RemoveTargetUnchecked(C, t) ==
    IF IsIn(t, C)
    THEN [children |-> Remove(C, t), raised |-> FALSE]
    ELSE [children |-> C, raised |-> TRUE]

\* lines 357-358: `if self.target in aquarium.children: remove`;
\* list.remove raises ValueError for a value that is not in the list
RemoveTarget(C, t) ==
    IF IsIn(t, C)
    THEN [children |-> Remove(C, t), raised |-> FALSE]
    ELSE [children |-> C, raised |-> FALSE]

\* line 360
ClearTarget(fish) == [fish EXCEPT !.target = None]

\* IdlePath with the heading of the fish in every entry
IdlePathNoFlip(fish, rand) ==
    [i \in 1..rand |-> Step(fish.pos, fish.heading)]

\* lines 369-380: the idle path; every entry is the fish's own Position
IdlePath(fish, rand) ==
    [i \in 1..rand |->
       Step(fish.pos,
            \* flipped at i = 0 and again at every later multiple of 3
            IF ((i - 1) \div IdleFlipEvery) % 2 = 0
            THEN -fish.heading ELSE fish.heading)]

\* lines 382-387
FollowPath(fish) ==
    IF fish.skip_frame
    THEN [fish EXCEPT !.skip_frame = FALSE]
    ELSE [fish EXCEPT !.pos = fish.path[1].pos,
                      !.heading = fish.path[1].heading,
                      !.path = Tail(fish.path),
                      !.alias = fish.alias /\ Len(fish.path) > 1,
                      !.shares = fish.shares /\ fish.alias]

\* lines 355-361: the fish is in range of its target t
Consume(E, C, f, t, rem) ==
    [ent |-> [E EXCEPT ![t].targeters = @ - 1, ![f] = ClearTarget(E[f])],
     children |-> rem.children, ret |-> FALSE, raised |-> rem.raised,
     did |-> [pursued |-> None, consumed |-> t, present |-> IsIn(t, C)]]

\* Pursue that takes the second entry of the path as its extra step
PursueSkipsAhead(fish, planned) ==
    [fish EXCEPT !.pos = planned[2].pos,
                 !.heading = planned[2].heading,
                 !.path = Tail(Tail(planned)),
                 !.alias = FALSE,
                 !.shares = FALSE]

\* Pursue without the extra step of line 366
PursueNoExtraStep(fish, planned) ==
    [fish EXCEPT !.path = planned, !.alias = FALSE]

\* lines 363-366: re-plan toward the target and take the extra step
Pursue(fish, planned) ==
    [fish EXCEPT !.pos = planned[1].pos,
                 !.heading = planned[1].heading,
                 !.path = Tail(planned),
                 !.alias = FALSE,
                 !.shares = FALSE]

\* lines 368-387, on the fish as lines 346-366 left it
Wander(E, C, f, fish, rand, did) ==
    IF Len(fish.path) = 0
    THEN IF rand < IdleThreshold
         THEN [ent |-> [E EXCEPT ![f] = [fish EXCEPT !.path = IdlePath(fish, rand),
                                                     !.alias = rand > 0]],
               children |-> C, ret |-> TRUE, raised |-> FALSE, did |-> did]
         ELSE [ent |-> [E EXCEPT ![f] = fish],
               children |-> C, ret |-> FALSE, raised |-> FALSE, did |-> did]
    ELSE [ent |-> [E EXCEPT ![f] = FollowPath(fish)],
          children |-> C, ret |-> TRUE, raised |-> FALSE, did |-> did]

\* lines 354-387, on the heap as lines 346-352 left it
AfterAcquire(E, C, f, t, rand) ==
    IF t = None
    THEN Wander(E, C, f, E[f], rand,
                [pursued |-> None, consumed |-> None, present |-> FALSE])
    ELSE IF distance_to_le(E[f].pos, E[t].pos, ConsumeRange)
    THEN Consume(E, C, f, t, RemoveTarget(C, t))
    ELSE Wander(E, C, f,
                Pursue(E[f], update_path(E[f].pos, E[t].pos, E[f].movelimits)),
                rand,
                [pursued |-> t, consumed |-> None, present |-> FALSE])

TargetOf(E, f) == E[f].target

WithTarget(E, C, f, rand) == AfterAcquire(E, C, f, TargetOf(E, f), rand)

FishUpdate(E, C, f, rand) == WithTarget(AcquireTarget(E, C, f), C, f, rand)

(***************************************************************************)
(* State                                                                   *)
(***************************************************************************)
VARIABLES
    pos,        \* Aquarium.pos
    width,      \* Aquarium.width
    height,     \* Aquarium.height
    children,   \* Aquarium.children: object identities, in insertion order
    ent,        \* the heap: every AquariumChild constructed so far
    pc,         \* "ready", "update" (inside Aquarium.update), "updated"
    idx,        \* position of update()'s list iterator (1-based)
    raised,     \* an exception left Aquarium.update
    ticks,      \* number of Aquarium.update calls, counted up to MaxTicks
    moves,      \* number of Aquarium.move calls
    before,     \* history: children and the heap when update() was called
    visited,    \* history: the children whose update() ran, in order
    did,        \* history: what the last loop iteration did
    poi,        \* Aquarium._poi, _poi_calls and _poi_target_calls
                \* (src/sipedon/aquarium.py)
    default_pos \* the Position object that is the default of the parameter
                \* `pos` of Fish.__init__, made once, when the def is run

vars == <<pos, width, height, children, ent, pc, idx, raised, ticks, moves,
          before, visited, did, poi, default_pos>>

Nothing == [child |-> None, pursued |-> None, consumed |-> None,
            present |-> FALSE, children |-> <<>>, planned |-> <<>>,
            moved |-> <<>>, content |-> <<>>]
NoSnapshot == [children |-> <<>>, lifetime |-> <<>>, ent |-> <<>>]
\* the Aquarium of src/sipedon/classes.py keeps no point of interest
NoPoi == [point |-> None, calls |-> 0, target_calls |-> 0]

Init ==
    /\ pos \in {from_tuple(o) : o \in TankOrigins}
    /\ width \in TankWidths
    /\ height \in TankHeights
    /\ children = <<>>
    /\ ent = <<>>
    /\ pc = "ready"
    /\ idx = 0
    /\ raised = FALSE
    /\ ticks = 0
    /\ moves = 0
    /\ before = NoSnapshot
    /\ visited = <<>>
    /\ did = Nothing
    /\ default_pos = origin
    /\ poi = NoPoi

Ids == 1..Len(ent)
Count(k) == Cardinality({e \in Ids : ent[e].kind = k})
Idle == pc # "update" /\ ~raised

(***************************************************************************)
(* Aquarium                                                                *)
(***************************************************************************)
\* Aquarium._get_destination: every Position the two randint draws can give
Destinations(fish) ==
    LET cfg == Species[fish.species]
    IN {Position(pos.xcoord + dx, pos.ycoord + dy) :
          dx \in (-1)..(width - cfg.width),
          dy \in (1 + (height * cfg.lower_bound) \div 100)
                   ..(1 + (height * cfg.upper_bound) \div 100)}

\* Aquarium.clamp: mutates child.pos in place, so an idle path, whose entries
\* are that same object, follows it
ClampX(child) ==
    Max(Min(pos.xcoord + width - Width(child) + 1, child.pos.xcoord),
        pos.xcoord - 1)

ClampY(child) ==
    Max(Min(pos.ycoord + height - 1, child.pos.ycoord), pos.ycoord)

\* the child once the Position object it holds as pos has the value p
Put(child, p) ==
    IF child.kind = "Fish" /\ child.alias
    THEN [child EXCEPT !.pos = p,
                       !.path = [i \in 1..Len(child.path) |->
                                   Step(p, child.path[i].heading)]]
    ELSE [child EXCEPT !.pos = p]

clamp(child) == Put(child, Position(ClampX(child), ClampY(child)))

\* the child holds the default Position object of Fish.__init__
Sharing(child) == child.kind = "Fish" /\ child.shares

\* Aquarium.clamp(child) on the heap: it assigns to the fields of the object
\* child.pos, so every Fish that holds that same object moves with the child
clamp_heap(E, c) ==
    IF Sharing(E[c])
    THEN [e \in DOMAIN E |->
            IF Sharing(E[e]) THEN Put(E[e], clamp(E[c]).pos) ELSE E[e]]
    ELSE [E EXCEPT ![c] = clamp(E[c])]

\* Aquarium.add(other) for a Fish
AddFish(species, p, randomize_pos) ==
    /\ Idle
    /\ \E q \in (IF randomize_pos THEN Destinations(NewFish(species, p)) ELSE {p}) :
         ent' = Append(ent, NewFish(species, q))
    /\ children' = Append(children, Len(ent) + 1)
    /\ pc' = "ready"
    /\ before' = NoSnapshot /\ visited' = <<>> /\ did' = Nothing
    /\ UNCHANGED <<default_pos, poi, pos, width, height, idx, raised, ticks, moves>>

\* Retarget with every fish chosen
RetargetAll(E, C, food) ==
    LET fish == OfKind(E, C, "Fish")
        chosen == {fish[i] : i \in 1..Len(fish)}
    IN [e \in DOMAIN E |->
          IF e \in chosen THEN [E[e] EXCEPT !.target = food] ELSE E[e]]

\* lines 568-570: every third fish gets the food as its target
Retarget(E, C, food) ==
    LET fish == OfKind(E, C, "Fish")
        chosen == {fish[i] : i \in {j \in 1..Len(fish) : (j - 1) % TargetEvery = 0}}
    IN [e \in DOMAIN E |->
          IF e \in chosen THEN [E[e] EXCEPT !.target = food] ELSE E[e]]

\* Aquarium.add(other) for a Food
AddFood(p) ==
    /\ Idle
    /\ \E pigment \in FoodPigments :
         LET food == Len(ent) + 1
             new == [NewFood(p, pigment) EXCEPT
                       !.endpoint = <<pos.ycoord + height - 1>>]
         IN /\ children' = Append(children, food)
            /\ ent' = Retarget(Append(ent, new), children', food)
    /\ pc' = "ready"
    /\ before' = NoSnapshot /\ visited' = <<>> /\ did' = Nothing
    /\ UNCHANGED <<default_pos, poi, pos, width, height, idx, raised, ticks, moves>>

\* move_origin with the loop of lines 394-395 left out
move_origin_pos_only(child, diff) ==
    IF child.kind = "Fish"
    THEN [child EXCEPT !.pos = PosAdd(child.pos, diff),
                       !.shares = FALSE,
                       !.skip_frame = TRUE]
    ELSE [child EXCEPT !.pos = PosAdd(child.pos, diff)]

\* AquariumChild.move_origin / Fish.move_origin
move_origin(child, diff) ==
    IF child.kind = "Fish"
    THEN [child EXCEPT !.pos = PosAdd(child.pos, diff),
                       !.path = [i \in 1..Len(child.path) |->
                                   Step(PosAdd(child.path[i].pos, diff),
                                        child.path[i].heading)],
                       !.alias = FALSE,
                       !.shares = FALSE,
                       !.skip_frame = TRUE]
    ELSE [child EXCEPT !.pos = PosAdd(child.pos, diff)]

\* Aquarium.move(new)
Move(new) ==
    /\ Idle
    /\ LET diff == PosSub(new, pos)
       IN ent' = [e \in DOMAIN ent |->
                    IF IsIn(e, children) THEN move_origin(ent[e], diff) ELSE ent[e]]
    /\ pos' = new
    /\ moves' = moves + 1
    /\ pc' = "ready"
    /\ before' = NoSnapshot /\ visited' = <<>> /\ did' = Nothing
    /\ UNCHANGED <<default_pos, poi, width, height, children, idx, raised, ticks>>

\* get_content that leaves out a child drawn at the position of the one
\* before it
get_content_distinct(E, C) ==
    LET keep == {i \in 1..Len(C) : i = 1 \/ E[C[i]].pos # E[C[i - 1]].pos}
    IN [k \in 1..Cardinality(keep) |->
          LET i == CHOOSE j \in keep : Cardinality({h \in keep : h < j}) = k - 1
          IN <<E[C[i]].pos, Skin(E[C[i]])>>]

\* Aquarium.get_content: (child.pos, child.skin) of every child, in order
get_content(E, C) ==
    [i \in 1..Len(C) |-> <<E[C[i]].pos, Skin(E[C[i]])>>]

\* the host calls get_content(); the list it got is kept in `did`
GetContent ==
    /\ Idle
    /\ did' = [Nothing EXCEPT !.content = <<get_content(ent, children)>>]
    /\ UNCHANGED <<default_pos, poi, pos, width, height, children, ent, pc, idx, raised, ticks,
                   moves, before, visited>>

\* Aquarium.update(): `for child in self.children` creates the iterator
UpdateBegin ==
    /\ Idle
    /\ pc' = "update"
    /\ idx' = 1
    /\ ticks' = Min(ticks + 1, MaxTicks)
    /\ before' = [children |-> children,
                  lifetime |-> [e \in DOMAIN ent |-> ent[e].lifetime],
                  ent |-> ent]
    /\ visited' = <<>>
    /\ did' = Nothing
    /\ UNCHANGED <<default_pos, poi, pos, width, height, children, ent, raised, moves>>

\* lines 626-628, with the iterator advancing to the next index
Finish(c, E, C, d) ==
    /\ ent' = [clamp_heap(E, c) EXCEPT ![c].lifetime = Min(@ + 1, MaxLifetime)]
    /\ default_pos' = IF Sharing(E[c]) THEN clamp(E[c]).pos ELSE default_pos
    /\ children' = C
    /\ idx' = idx + 1
    /\ visited' = Append(visited, c)
    /\ did' = d @@ [child |-> c, children |-> children, planned |-> <<>>,
                     moved |-> <<>>, content |-> <<>>]
    /\ UNCHANGED <<poi, pos, width, height, pc, raised, ticks, moves, before>>

\* an exception propagates out of update(): the loop is abandoned
Abort(c, E, C, d) ==
    /\ ent' = E
    /\ children' = C
    /\ raised' = TRUE
    /\ visited' = Append(visited, c)
    /\ did' = d @@ [child |-> c, children |-> children, planned |-> <<>>,
                     moved |-> <<>>, content |-> <<>>]
    /\ UNCHANGED <<default_pos, poi, pos, width, height, pc, idx, ticks, moves, before>>

\* Redirect that leaves the fish the path it has
RedirectKeepsPath(E, f, dest) == E

\* lines 619-621: a Fish whose update returned False gets a new destination
Redirect(E, f, dest) ==
    [E EXCEPT ![f].path = update_path(E[f].pos, dest, E[f].movelimits),
              ![f].alias = FALSE]

\* lines 618-628 for a Fish whose update gave r
SettleFish(c, r) ==
    IF r.raised THEN Abort(c, r.ent, r.children, r.did)
    ELSE IF r.ret THEN Finish(c, r.ent, r.children, r.did)
    ELSE \E dest \in Destinations(r.ent[c]) :
           Finish(c, Redirect(r.ent, c, dest), r.children,
                  [planned |-> <<dest>>] @@ r.did)

\* one iteration of the loop body (lines 617-628) on a Fish
UpdateFish ==
    /\ pc = "update" /\ ~raised /\ idx <= Len(children)
    /\ ent[children[idx]].kind = "Fish"
    /\ \E rand \in 0..5 :
         \E r \in {FishUpdate(ent, children, children[idx], rand)} :
           SettleFish(children[idx], r)

\* lines 618-628 for a Food whose update gave r
SettleFood(c, r) ==
    Finish(c, r.ent, IF r.ret THEN children ELSE Remove(children, c),
           [pursued |-> None, consumed |-> None, present |-> FALSE,
            moved |-> r.moved])

\* one iteration of the loop body (lines 617-628) on a Food
UpdateFood ==
    /\ pc = "update" /\ ~raised /\ idx <= Len(children)
    /\ ent[children[idx]].kind = "Food"
    /\ \E horizontal \in (-1)..1, vertical \in {0, 1} :
         \E r \in {FoodUpdate(ent, children, children[idx], horizontal, vertical)} :
           SettleFood(children[idx], r)

\* the iterator is exhausted: `return True`
UpdateReturn ==
    /\ pc = "update" /\ ~raised /\ idx > Len(children)
    /\ pc' = "updated"
    /\ idx' = 0
    /\ did' = Nothing
    /\ UNCHANGED <<default_pos, poi, pos, width, height, children, ent, raised, ticks, moves,
                   before, visited>>

\* the host: it adds at most MaxFish fish and MaxFood foods, moves the tank
\* at most MaxMoves times and runs at most MaxTicks updates
Next ==
    \/ \E s \in FishSpecies, p \in FishPositions, r \in FishRandomize :
         Count("Fish") < MaxFish /\ AddFish(s, from_tuple(p), r)
    \/ \E p \in FoodPositions :
         Count("Food") < MaxFood /\ AddFood(from_tuple(p))
    \/ \E o \in MoveTargets :
         moves < MaxMoves /\ from_tuple(o) # pos /\ Move(from_tuple(o))
    \/ ticks < MaxTicks /\ UpdateBegin
    \/ UpdateFish
    \/ UpdateFood
    \/ UpdateReturn

Spec == Init /\ [][Next]_vars

(***************************************************************************)
(* The shoal: the same operations, with a host that adds up to ShoalFish   *)
(* fish, all at one position                                               *)
(***************************************************************************)
NextShoal ==
    \/ \E s \in FishSpecies, p \in ShoalPositions :
         Count("Fish") < ShoalFish /\ AddFish(s, from_tuple(p), FALSE)
    \/ \E p \in ShoalFoodPositions :
         Count("Food") < MaxFood /\ AddFood(from_tuple(p))
    \/ \E o \in MoveTargets :
         moves < MaxMoves /\ from_tuple(o) # pos /\ Move(from_tuple(o))
    \/ ticks < MaxTicks /\ UpdateBegin
    \/ UpdateFish
    \/ UpdateFood
    \/ UpdateReturn

SpecShoal == Init /\ [][NextShoal]_vars

(***************************************************************************)
(* The stock: a host that adds up to StockFish fish, all at one position,  *)
(* and up to StockFood foods, in any order, and that reads the content of  *)
(* the tank between updates                                                *)
(***************************************************************************)
NextStock ==
    \/ \E s \in StockSpecies, p \in ShoalPositions :
         Count("Fish") < StockFish /\ AddFish(s, from_tuple(p), FALSE)
    \/ \E p \in StockFoodPositions :
         Count("Food") < StockFood /\ AddFood(from_tuple(p))
    \/ ticks < StockTicks /\ UpdateBegin
    \/ GetContent
    \/ UpdateFish
    \/ UpdateFood
    \/ UpdateReturn

SpecStock == Init /\ [][NextStock]_vars

(***************************************************************************)
(* The scatter: a host that adds up to ScatterFish fish of any species     *)
(* with add(fish, randomize_pos=True)                                      *)
(***************************************************************************)
NextScatter ==
    \E s \in SpeciesNames, p \in ShoalPositions :
        Count("Fish") < ScatterFish /\ AddFish(s, from_tuple(p), TRUE)

SpecScatter == Init /\ [][NextScatter]_vars

(***************************************************************************)
(* The pond: a narrow tank that holds up to PondFood foods and no fish     *)
(***************************************************************************)
InitPond ==
    /\ pos \in {from_tuple(o) : o \in TankOrigins}
    /\ width \in PondWidths
    /\ height \in TankHeights
    /\ children = <<>>
    /\ ent = <<>>
    /\ pc = "ready"
    /\ idx = 0
    /\ raised = FALSE
    /\ ticks = 0
    /\ moves = 0
    /\ before = NoSnapshot
    /\ visited = <<>>
    /\ did = Nothing
    /\ default_pos = origin
    /\ poi = NoPoi

NextPond ==
    \/ \E p \in PondPositions :
         Count("Food") < PondFood /\ AddFood(from_tuple(p))
    \/ ticks < PondTicks /\ UpdateBegin
    \/ UpdateFood
    \/ UpdateReturn

SpecPond == InitPond /\ [][NextPond]_vars

(***************************************************************************)
(* The stray: the pond with a host that also puts Food objects into        *)
(* Aquarium.children itself, without Aquarium.add, so that their endpoint  *)
(* is still None when update() reaches them                                *)
(***************************************************************************)
\* aquarium.children.append(Food(p))
PutFood(p) ==
    /\ Idle
    /\ \E pigment \in FoodPigments : ent' = Append(ent, NewFood(p, pigment))
    /\ children' = Append(children, Len(ent) + 1)
    /\ pc' = "ready"
    /\ before' = NoSnapshot /\ visited' = <<>> /\ did' = Nothing
    /\ UNCHANGED <<default_pos, poi, pos, width, height, idx, raised, ticks, moves>>

NextStray ==
    \/ \E p \in PondPositions :
         Count("Food") < StrayFood /\ PutFood(from_tuple(p))
    \/ \E p \in PondPositions :
         Count("Food") < StrayFood /\ AddFood(from_tuple(p))
    \/ ticks < PondTicks /\ UpdateBegin
    \/ UpdateFood
    \/ UpdateReturn

SpecStray == InitPond /\ [][NextStray]_vars

(***************************************************************************)
(* The point of interest of src/sipedon/aquarium.py: an Aquarium whose      *)
(* constructor has called get_poi(), a host that adds up to PoiFish fish   *)
(* and fish that call get_poi().  _poi_target_calls is                     *)
(* poi_update_percent * len(self.fish), a float; it is held as the number  *)
(* of fish, that is in fifths, which compares with the integer _poi_calls  *)
(* as the float does (the product is exact when it is a whole number).     *)
(***************************************************************************)
\* the Positions lines 559-562 can draw
PoiPoints ==
    {Position(pos.xcoord + dx, pos.ycoord + dy) : dx \in 0..width, dy \in 0..height}

\* line 558: `self._poi_calls >= self._poi_target_calls`
Due(P) == poi_update_inverse * P.calls >= P.target_calls

\* get_poi without line 563, `self._poi_calls = 0`
get_poi_no_reset(P, fish, drawn) ==
    LET q == IF Due(P)
             THEN [point |-> drawn, calls |-> P.calls, target_calls |-> fish]
             ELSE P
    IN [q EXCEPT !.calls = @ + 1]

\* Aquarium.get_poi, lines 558-566: the cache after the call, for the
\* number of fish in the tank and the Position the two draws give
get_poi(P, fish, drawn) ==
    LET q == IF Due(P)
             THEN [point |-> drawn, calls |-> 0, target_calls |-> fish]
             ELSE P
    IN [q EXCEPT !.calls = @ + 1]

\* Aquarium.__init__, lines 515-521: the counters at 0, then get_poi()
InitPoi ==
    /\ pos \in {from_tuple(o) : o \in TankOrigins}
    /\ width \in TankWidths
    /\ height \in TankHeights
    /\ children = <<>>
    /\ ent = <<>>
    /\ pc = "ready"
    /\ idx = 0
    /\ raised = FALSE
    /\ ticks = 0
    /\ moves = 0
    /\ before = NoSnapshot
    /\ visited = <<>>
    /\ did = Nothing
    /\ default_pos = origin
    /\ \E drawn \in PoiPoints : poi = get_poi(NoPoi, 0, drawn)

\* a call of aquarium.get_poi(); what it returns, self._poi.fuzz(), is a new
\* Position that the Aquarium does not keep
GetPoi ==
    /\ \E drawn \in PoiPoints :
         poi' = get_poi(poi, Len(OfKind(ent, children, "Fish")), drawn)
    /\ UNCHANGED <<pos, width, height, children, ent, pc, idx, raised, ticks,
                   moves, before, visited, did, default_pos>>

NextPoi ==
    \/ \E s \in FishSpecies, p \in ShoalPositions :
         Count("Fish") < PoiFish /\ AddFish(s, from_tuple(p), FALSE)
    \/ GetPoi

SpecPoi == InitPoi /\ [][NextPoi]_vars

(***************************************************************************)
(* The windowed tank of src/fishtank: AquariumWindow constructs its        *)
(* Aquarium at _get_position(), below and to the right of the terminal's   *)
(* origin, the host adds fish constructed as Fish(), without a position,   *)
(* moves the tank when the window moves and runs update().                 *)
(***************************************************************************)
\* AquariumWindow._get_position(): the origin of the tank inside the window
WindowOrigins == {<<3, 2>>}
\* the origin after the window has been moved
WindowMoves == {<<4, 3>>}

\* Aquarium(self._get_position(), width=..., height=...)
InitWindow ==
    /\ pos \in {from_tuple(o) : o \in WindowOrigins}
    /\ width \in TankWidths
    /\ height \in TankHeights
    /\ children = <<>>
    /\ ent = <<>>
    /\ pc = "ready"
    /\ idx = 0
    /\ raised = FALSE
    /\ ticks = 0
    /\ moves = 0
    /\ before = NoSnapshot
    /\ visited = <<>>
    /\ did = Nothing
    /\ default_pos = origin
    /\ poi = NoPoi

\* view += Fish(): Aquarium.add of a Fish whose pos is the default of the
\* parameter, the one Position object made when the def of __init__ was run
AddDefaultFish(species) ==
    /\ Idle
    /\ ent' = Append(ent, [NewFish(species, default_pos) EXCEPT !.shares = TRUE])
    /\ children' = Append(children, Len(ent) + 1)
    /\ pc' = "ready"
    /\ before' = NoSnapshot /\ visited' = <<>> /\ did' = Nothing
    /\ UNCHANGED <<default_pos, poi, pos, width, height, idx, raised, ticks, moves>>

NextWindow ==
    \/ \E s \in FishSpecies :
         Count("Fish") < WindowFish /\ AddDefaultFish(s)
    \/ \E o \in WindowMoves :
         moves < MaxMoves /\ from_tuple(o) # pos /\ Move(from_tuple(o))
    \/ ticks < WindowTicks /\ UpdateBegin
    \/ UpdateFish
    \/ UpdateReturn

SpecWindow == InitWindow /\ [][NextWindow]_vars

(***************************************************************************)
(* One fish and one food, the food added after the fish, the tank never    *)
(* moved, and a host that never stops calling update(): the loop of        *)
(* src/sipedon/__main__.py.  Every step of update() is taken once it can   *)
(* be (weak fairness); the draw that makes a falling food sink a row comes *)
(* up again and again (strong fairness).                                   *)
(***************************************************************************)
\* Food.update with the draw random.choice([0, 0, 1]) = 1 taking effect
FoodSinks ==
    /\ UpdateFood
    /\ ent'[children[idx]].pos.ycoord > ent[children[idx]].pos.ycoord

NextPair ==
    \/ \E s \in FishSpecies, p \in FishPositions :
         Count("Fish") < 1 /\ Count("Food") < 1 /\ AddFish(s, from_tuple(p), FALSE)
    \/ \E p \in FoodPositions :
         Count("Fish") = 1 /\ Count("Food") < 1 /\ AddFood(from_tuple(p))
    \/ UpdateBegin
    \/ UpdateFish
    \/ UpdateFood
    \/ UpdateReturn

FairPair ==
    /\ WF_vars(UpdateBegin)
    /\ WF_vars(UpdateFish)
    /\ WF_vars(UpdateFood)
    /\ WF_vars(UpdateReturn)
    /\ SF_vars(FoodSinks)

SpecPair == Init /\ [][NextPair]_vars /\ FairPair

(***************************************************************************)
(* The planner alone: a Fish constructed at any position of the grid with  *)
(* any pair of movelimits, and calls of its update_path                    *)
(***************************************************************************)
InitPlan ==
    /\ pos \in {from_tuple(o) : o \in TankOrigins}
    /\ width \in TankWidths
    /\ height \in TankHeights
    /\ children = <<>>
    /\ \E a \in PlanGrid, xlimit \in PlanLimits, ylimit \in PlanLimits :
         ent = <<[NewFish("Fish", a) EXCEPT !.movelimits = <<xlimit, ylimit>>]>>
    /\ pc = "ready"
    /\ idx = 0
    /\ raised = FALSE
    /\ ticks = 0
    /\ moves = 0
    /\ before = NoSnapshot
    /\ visited = <<>>
    /\ did = Nothing
    /\ default_pos = origin
    /\ poi = NoPoi

\* fish.update_path(dest), called on its own
UpdatePath(f, dest) ==
    /\ ent' = [ent EXCEPT ![f].path = update_path(ent[f].pos, dest, ent[f].movelimits),
                          ![f].alias = FALSE]
    /\ did' = [Nothing EXCEPT !.child = f, !.planned = <<dest>>]
    /\ UNCHANGED <<default_pos, poi, pos, width, height, children, pc, idx, raised, ticks, moves,
                   before, visited>>

NextPlan == \E dest \in PlanGrid : UpdatePath(1, dest)

SpecPlan == InitPlan /\ [][NextPlan]_vars

(***************************************************************************)
(* Properties                                                              *)
(***************************************************************************)
Children == {children[i] : i \in 1..Len(children)}
FoodIds == {e \in Ids : ent[e].kind = "Food"}
FishIds == {e \in Ids : ent[e].kind = "Fish"}
Targeting(food) == {f \in FishIds : ent[f].target = food}

\* the bounds invariant of the tank for one entity
InBounds(e) ==
    /\ pos.xcoord - 1 <= e.pos.xcoord
    /\ e.pos.xcoord <= pos.xcoord + width - Width(e) + 1
    /\ pos.ycoord <= e.pos.ycoord
    /\ e.pos.ycoord <= pos.ycoord + height - 1

\* C1: when Aquarium.update() has returned, every entity of the collection
\* lies within the bounds of the tank, whatever its position was before
C1_BoundsAfterUpdate ==
    pc = "updated" => \A e \in Children : InBounds(ent[e])

\* C2: no Food's targeter count exceeds 2, in any state that adds, moves and
\* updates reach
C2_TargetersAtMostTwo ==
    \A e \in FoodIds : ent[e].targeters <= 2

\* C2's case: a food two fish acquired, and a third fish in range of it whose
\* update has just left it without target
C2_ThirdFishRefused ==
    \E e \in FoodIds \cap Children :
        /\ ent[e].targeters = 2
        /\ Cardinality(Targeting(e)) = 2
        /\ did.child \in FishIds
        /\ ent[did.child].target = None
        /\ distance_to_le(ent[did.child].pos, ent[e].pos, AcquireRange)

\* C3: at most 2 fish hold the same Food as their target at the same time
C3_AtMostTwoFishPerFood ==
    \A e \in FoodIds : Cardinality(Targeting(e)) <= 2

\* C4: a Food's targeter count is never negative
C4_TargetersNonNegative ==
    \A e \in FoodIds : ent[e].targeters >= 0

\* C5: each Food's targeter count equals the number of fish whose target is
\* that food
C5_TargetersCountFish ==
    \A e \in FoodIds : ent[e].targeters = Cardinality(Targeting(e))

\* the path a call of update_path left, its start and its destination
Planned == did.planned # <<>>
PlanFish == ent[did.child]
PlanPath == PlanFish.path
PlanStart == PlanFish.pos
PlanDest == did.planned[1]
PlanLast == PlanPath[Len(PlanPath)].pos
Disabled(limit) == limit <= 0

\* C6: with both movement limits disabled, the planned path starts at the
\* fish's position, ends at the destination, and consecutive positions differ
\* by at most 1 in x and at most 1 in y
C6_UnlimitedPathConnects ==
    (Planned /\ Disabled(PlanFish.movelimits[1]) /\ Disabled(PlanFish.movelimits[2])) =>
        /\ Len(PlanPath) >= 1
        /\ PlanPath[1].pos = PlanStart
        /\ PlanLast = PlanDest
        /\ \A i \in 1..(Len(PlanPath) - 1) :
             /\ Abs(PlanPath[i + 1].pos.xcoord - PlanPath[i].pos.xcoord) <= 1
             /\ Abs(PlanPath[i + 1].pos.ycoord - PlanPath[i].pos.ycoord) <= 1

\* C6's case: an unlimited path across the grid that is neither straight nor
\* a pure diagonal
C6_SlantedPathPlanned ==
    /\ Planned /\ Disabled(PlanFish.movelimits[1]) /\ Disabled(PlanFish.movelimits[2])
    /\ Abs(PlanDest.xcoord - PlanStart.xcoord) = 3
    /\ Abs(PlanDest.ycoord - PlanStart.ycoord) = 2

\* C7: with a horizontal limit L > 0 and the vertical limit disabled, the last
\* x of the path is within L of the start, lies between the start's and the
\* destination's x, and is the destination's x when that is within L
C7_HorizontalLimitRespected ==
    (Planned /\ PlanFish.movelimits[1] > 0 /\ Disabled(PlanFish.movelimits[2])) =>
        LET L == PlanFish.movelimits[1]
        IN /\ Abs(PlanLast.xcoord - PlanStart.xcoord) <= L
           /\ Min(PlanStart.xcoord, PlanDest.xcoord) <= PlanLast.xcoord
           /\ PlanLast.xcoord <= Max(PlanStart.xcoord, PlanDest.xcoord)
           /\ (Abs(PlanDest.xcoord - PlanStart.xcoord) <= L
                 => PlanLast.xcoord = PlanDest.xcoord)

\* C7's case: a destination farther away than the horizontal limit
C7_LimitCutsPath ==
    /\ Planned /\ PlanFish.movelimits[1] > 0 /\ Disabled(PlanFish.movelimits[2])
    /\ Abs(PlanDest.xcoord - PlanStart.xcoord) > PlanFish.movelimits[1]
    /\ Abs(PlanLast.xcoord - PlanStart.xcoord) = PlanFish.movelimits[1]

\* the children that were in the collection when update() was called and
\* still are when it returns
Survivors == {e \in Children : IsIn(e, before.children)}
Among(seq, S) == SelectSeq(seq, LAMBDA e : e \in S)

\* C8: when Aquarium.update() returns, every entity that was in the collection
\* at the call and still is has had its update invoked exactly once, in
\* insertion order, and its lifetime incremented by exactly 1
C8_EachChildUpdatedOnce ==
    pc = "updated" =>
        /\ Among(visited, Survivors) = Among(before.children, Survivors)
        /\ \A e \in Survivors : ent[e].lifetime = before.lifetime[e] + 1

\* C9: a fish re-plans and steps toward its target only while the target is
\* in the collection
C9_PursuedTargetIsChild ==
    did.pursued # None => IsIn(did.pursued, did.children)

\* C10: a fish in consumption range of a target that is no longer in the
\* collection raises no error, leaves the collection as it was and clears its
\* target
C10_StaleTargetDropped ==
    (did.consumed # None /\ ~did.present) =>
        /\ ~raised
        /\ children = did.children
        /\ ent[did.child].target = None

\* C10's case: the fish has just found its target, removed earlier by
\* another fish, within range
C10_StaleTargetInRange ==
    /\ did.consumed # None /\ ~did.present
    /\ ~IsIn(did.consumed, children)
    /\ distance_to_le(ent[did.child].pos, ent[did.consumed].pos, ConsumeRange)

\* C11: the update of a non-resting Food never moves it into a cell that a
\* different resting Food of the collection occupies
C11_NeverMovesOntoResting ==
    (did.moved # <<>> /\ did.moved[1] # did.moved[2]) =>
        \A e \in (FoodIds \cap Children) \ {did.child} :
            ent[e].is_static => ent[e].pos # did.moved[2]

\* the tank holds one fish and one food
PairHeld == Count("Fish") = 1 /\ Count("Food") = 1
RestingRow == pos.ycoord + height - 1

\* C12: once the tank holds one fish and one food, the food is eventually
\* removed from the collection or resting on the row origin.y + height - 1
C12_FoodRemovedOrResting ==
    PairHeld ~>
        \A e \in FoodIds :
            \/ ~IsIn(e, children)
            \/ ent[e].is_static /\ ent[e].pos.ycoord = RestingRow

\* C12's case: the food has come to rest on the resting row, out of the reach
\* of the fish that still holds it as target
C12_FoodAtRestUneaten ==
    /\ PairHeld
    /\ \E e \in FoodIds \cap Children :
         /\ ent[e].is_static /\ ent[e].pos.ycoord = RestingRow
         /\ ent[e].lifetime > 1
         /\ \E f \in FishIds : ent[f].target = e /\ ent[f].lifetime > 1

\* what Aquarium.move may change of an entity: its position and, for a fish,
\* the positions of its path and the flag that skips the next step
Shifted(old, new, diff) ==
    /\ new.pos = PosAdd(old.pos, diff)
    /\ new.lifetime = old.lifetime
    /\ old.kind = "Food" =>
         new = [old EXCEPT !.pos = new.pos]
    /\ old.kind = "Fish" =>
         /\ Len(new.path) = Len(old.path)
         /\ \A i \in 1..Len(old.path) :
              /\ new.path[i].pos = PosAdd(old.path[i].pos, diff)
              /\ new.path[i].heading = old.path[i].heading
         /\ new.heading = old.heading
         /\ new.target = old.target
         /\ new.movelimits = old.movelimits

\* C13: Aquarium.move(new) sets the origin to new and shifts the position of
\* every entity of the collection and every entry of every fish's path by
\* new - old origin; the order of the collection, path lengths and headings,
\* lifetimes, fish targets and food targeter counts stay as they were
C13_MoveShiftsByDelta ==
    [][\A o \in MoveTargets :
         Move(from_tuple(o)) =>
           /\ pos' = from_tuple(o)
           /\ children' = children
           /\ \A e \in Children :
                Shifted(ent[e], ent'[e], PosSub(from_tuple(o), pos))]_vars

\* C13's case: the tank has been moved while it held a food and a fish with
\* a target and steps left on its path
C13_MovedMidPath ==
    /\ moves > 0 /\ pc = "ready"
    /\ \E e \in FoodIds \cap Children : ent[e].targeters > 0
    /\ \E f \in FishIds \cap Children :
         /\ ent[f].skip_frame
         /\ ent[f].target # None
         /\ Len(ent[f].path) > 1
         /\ ent[f].path[1].pos # ent[f].path[2].pos

\* the fish of the collection that had steps left on their path and no target
\* when update() was called
Strollers ==
    {f \in Survivors \cap FishIds :
        /\ Len(before.ent[f].path) > 0
        /\ before.ent[f].target = None}

\* the loop of update() has run to its end
Exhausted == pc = "update" /\ ~raised /\ idx > Len(children)

\* the child the loop has just updated is a fish that had steps left on its
\* path and held no target at any point of its update
Strolled ==
    /\ pc = "update" /\ did.child \in FishIds
    /\ Len(before.ent[did.child].path) > 0
    /\ before.ent[did.child].target = None
    /\ did.pursued = None /\ did.consumed = None

\* C14: for a fish with a non-empty path and no target, the first update()
\* after a move of the tank consumes no step (same path, same position apart
\* from clamping) and clears the skip flag; an update() that finds the flag
\* cleared consumes exactly one step
C14_SkipsOneStepAfterMove ==
    /\ Strolled =>
         LET old == before.ent[did.child]
             new == ent[did.child]
         IN IF old.skip_frame
            THEN /\ new.path = old.path
                 /\ new.pos = clamp(old).pos
                 /\ ~new.skip_frame
            ELSE /\ new.path = Tail(old.path)
                 /\ new.pos = clamp([old EXCEPT !.pos = old.path[1].pos]).pos
                 /\ ~new.skip_frame
    /\ Exhausted => \A f \in Strollers : IsIn(f, visited)

\* the fish of the collection, in container order
FishList == OfKind(ent, children, "Fish")

\* C15: Aquarium.add(food) appends the food as the last entity, sets its
\* endpoint to origin.y + height - 1 and sets the target of exactly the fish
\* at indices 0, 3, 6, ... of the fish list to it; every other fish keeps its
\* target
C15_AddFoodTargetsEveryThird ==
    [][\A p \in StockFoodPositions :
         AddFood(from_tuple(p)) =>
           /\ children' = Append(children, Len(ent) + 1)
           /\ ent'[Len(ent) + 1].kind = "Food"
           /\ ent'[Len(ent) + 1].endpoint = <<pos.ycoord + height - 1>>
           /\ \A i \in 1..Len(FishList) :
                ent'[FishList[i]].target =
                  IF (i - 1) % 3 = 0 THEN Len(ent) + 1
                  ELSE ent[FishList[i]].target]_vars

\* C15's case: a food has just been added to four fish; the first and the
\* fourth hold it as target, the second still holds an older food
C15_FourthFishRetargeted ==
    /\ Len(FishList) = 4 /\ Len(children) > 0
    /\ LET food == children[Len(children)]
       IN /\ ent[food].kind = "Food" /\ ent[food].lifetime = 0
          /\ ent[FishList[1]].target = food
          /\ ent[FishList[4]].target = food
          /\ ent[FishList[2]].target \notin {None, food}
          /\ ent[FishList[3]].target # food

\* C16: after Aquarium.add(fish, randomize_pos=True) the fish lies within the
\* bounds of the tank, whatever the two draws were
C16_RandomizedWithinBounds ==
    [][\A s \in SpeciesNames, p \in ShoalPositions :
         AddFish(s, from_tuple(p), TRUE) => InBounds(ent'[Len(ent) + 1])]_vars

\* C17: Aquarium.get_content() changes no state and returns one
\* (position, skin) pair per entity of the collection, in insertion order;
\* a second call with no update, add or move in between returns the same
C17_ContentIsPureAndOrdered ==
    [][GetContent =>
         /\ UNCHANGED <<pos, width, height, children, ent>>
         /\ Len(did'.content[1]) = Len(children)
         /\ \A i \in 1..Len(children) :
              /\ did'.content[1][i][1] = ent[children[i]].pos
              /\ did'.content[1][i][2] = Skin(ent[children[i]])
         /\ did.content # <<>> => did'.content = did.content]_vars

\* C17's case: the content of a tank in which a fish shows its reversed skin
\* and two entities lie at one position
C17_ContentOfCrowdedTank ==
    /\ did.content # <<>>
    /\ \E i, j \in 1..Len(did.content[1]) :
         /\ i < j
         /\ did.content[1][i][1] = did.content[1][j][1]
         /\ did.content[1][i][2] = reversed_skin
         /\ did.content[1][j][2] = char

\* C18: every entry of a planned path carries the same heading: +1 when the
\* path's endpoint is to the right of the start or has the start's x, -1 when
\* it is to the left
C18_HeadingFollowsEndpoint ==
    Planned =>
        \A i \in 1..Len(PlanPath) :
            PlanPath[i].heading =
              IF PlanLast.xcoord >= PlanStart.xcoord THEN 1 ELSE -1

\* the endpoint the claim C19 describes, on one axis
LimitedCoordinate(from, to, limit) ==
    IF limit > 0 /\ Abs(to - from) > limit
    THEN from + (IF to > from THEN 1 ELSE -1) * limit
    ELSE to

\* C19: on each axis the path's endpoint is the destination's coordinate when
\* the limit of the axis is <= 0 or |delta| <= limit, and start + sign * limit
\* only when |delta| exceeds a positive limit
C19_LimitAppliesBeyondLimitOnly ==
    Planned =>
        /\ PlanLast.xcoord =
             LimitedCoordinate(PlanStart.xcoord, PlanDest.xcoord,
                               PlanFish.movelimits[1])
        /\ PlanLast.ycoord =
             LimitedCoordinate(PlanStart.ycoord, PlanDest.ycoord,
                               PlanFish.movelimits[2])

\* the endpoint of lines 411-420 for the call that planned the path
PlanEnd == PathEnd(PlanStart, PlanDest, PlanFish.movelimits)

\* C20: Fish.update_path terminates, at the endpoint, and the path it leaves
\* has max(|dx|, |dy|) + 1 entries, (dx, dy) being the delta from the start to
\* the (possibly limited) endpoint
C20_PathLengthIsLongerAxis ==
    Planned =>
        /\ Len(PlanPath) = Max(Abs(PlanEnd.xcoord - PlanStart.xcoord),
                               Abs(PlanEnd.ycoord - PlanStart.ycoord)) + 1
        /\ Len(PlanPath) <= PathFuel
        /\ PlanLast = PlanEnd

\* C20's case: both limits cut the path, the endpoint lies up and to the left
\* of the start and farther away in x than in y
C20_LimitedSlantedPath ==
    /\ Planned
    /\ PlanFish.movelimits = <<2, 1>>
    /\ PlanEnd # PlanDest
    /\ PlanEnd.xcoord = PlanStart.xcoord - 2
    /\ PlanEnd.ycoord = PlanStart.ycoord - 1
    /\ Len(PlanPath) = 3

\* the foods of the collection, in container order
FoodList == OfKind(ent, children, "Food")

\* the indices in FoodList of the foods the fish f may take as target
Qualifying(f) ==
    {i \in 1..Len(FoodList) :
       /\ ent[FoodList[i]].targeters < 2
       /\ distance_to_le(ent[f].pos, ent[FoodList[i]].pos, 5)}

\* the heap E differs from ent in the targeter count of at most the food g
OnlyCountOf(E, g) ==
    \A e \in FoodIds : e # g => E[e].targeters = ent[e].targeters

\* what lines 346-352 leave of the fish f and of the foods
Acquired(f, E) ==
    IF Qualifying(f) = {}
    THEN /\ E[f].target = None
         /\ E[f].path = ent[f].path
         /\ OnlyCountOf(E, None)
    ELSE LET g == FoodList[SetMin(Qualifying(f))]
         IN /\ E[f].target = g
            /\ E[g].targeters = ent[g].targeters + 1
            /\ OnlyCountOf(E, g)
            /\ E[f].path = update_path(ent[f].pos, ent[g].pos, ent[f].movelimits)

\* C21: a fish with no target whose update finds food in the tank adopts the
\* first food in container order with targeters < 2 and distance <= 5, adds 1
\* to the targeter count of exactly that food and replaces its path with one
\* planned to that food (it then pursues or eats that food in this update);
\* if no food qualifies the fish stays without target and no count changes
C21_AdoptsFirstQualifyingFood ==
    [][UpdateFish /\ ent[children[idx]].target = None /\ FoodList # <<>> =>
         LET f == children[idx]
         IN /\ Acquired(f, AcquireTarget(ent, children, f))
            /\ IF Qualifying(f) = {}
               THEN /\ ent'[f].target = None
                    /\ did'.pursued = None /\ did'.consumed = None
                    /\ OnlyCountOf(ent', None)
               ELSE LET g == FoodList[SetMin(Qualifying(f))]
                    IN \/ /\ did'.pursued = g
                          /\ ent'[f].target = g
                          /\ ent'[g].targeters = ent[g].targeters + 1
                          /\ OnlyCountOf(ent', g)
                       \/ /\ did'.consumed = g
                          /\ distance_to_le(ent[f].pos, ent[g].pos, 1)]_vars

\* C21's case: a fish has just adopted the second food of the tank because two
\* fish already target the first, which lies in range as well
C21_AdoptedSecondFood ==
    /\ pc = "update" /\ did.child \in FishIds
    /\ Len(FoodList) = 2
    /\ before.ent[did.child].target = None
    /\ did.pursued = FoodList[2]
    /\ ent[FoodList[1]].targeters = 2
    /\ distance_to_le(before.ent[did.child].pos, ent[FoodList[1]].pos, 5)
    /\ ent[FoodList[2]].targeters = 1

\* the target the fish f holds once lines 346-352 of its update have run
Held(f) == TargetOf(AcquireTarget(ent, children, f), f)

\* the fish the loop is about to update holds a target within distance 1
InReach ==
    /\ Held(children[idx]) # None
    /\ distance_to_le(ent[children[idx]].pos, ent[Held(children[idx])].pos, 1)

\* C22: when a fish holding a target is within distance 1 of it at its
\* update, the target is removed from the collection if it was in it, the
\* fish's target is cleared, Fish.update leaves the fish's position as it was
\* and the Aquarium gives the fish a freshly planned, non-empty path from that
\* position to a new wander destination
C22_ConsumesAndGetsNewPath ==
    [][UpdateFish /\ InReach =>
         LET f == children[idx]
             t == Held(f)
         IN /\ ~raised'
            /\ children' = IF IsIn(t, children) THEN Remove(children, t)
                           ELSE children
            /\ ~IsIn(t, children')
            /\ ent'[f].target = None
            /\ \A rand \in 0..5 :
                 /\ FishUpdate(ent, children, f, rand).ent[f].pos = ent[f].pos
                 /\ ~FishUpdate(ent, children, f, rand).ret
            /\ ent'[f].pos = clamp(ent[f]).pos
            /\ Len(ent'[f].path) > 0
            /\ \E dest \in Destinations(ent[f]) :
                 ent'[f].path = update_path(ent[f].pos, dest, ent[f].movelimits)]_vars

\* C22's case: a fish that came into the update with a target and steps left
\* on its path has eaten the target, a child until then, and holds a path of
\* several entries to a cell away from it
C22_AteAndSetOff ==
    /\ pc = "update" /\ did.child \in FishIds
    /\ did.consumed # None /\ did.present
    /\ before.ent[did.child].target = did.consumed
    /\ Len(before.ent[did.child].path) > 0
    /\ ~IsIn(did.consumed, children)
    /\ ent[did.child].target = None
    /\ Len(ent[did.child].path) > 1
    /\ ent[did.child].path # before.ent[did.child].path

\* the fish the loop is about to update holds a target farther than
\* distance 1 and its _skip_frame is not set
OutOfReach ==
    /\ Held(children[idx]) # None
    /\ ~distance_to_le(ent[children[idx]].pos, ent[Held(children[idx])].pos, 1)
    /\ ~ent[children[idx]].skip_frame

\* C23: a fish that holds a target farther than distance 1, with _skip_frame
\* not set, drops its old path, plans a path from its position to the
\* target's position and takes two entries of it in the same update: Fish.update
\* leaves it at the second entry of that path, with the entries after the
\* second as its path
C23_PursuitTakesTwoEntries ==
    [][UpdateFish /\ OutOfReach =>
         LET f == children[idx]
             fresh == update_path(ent[f].pos, ent[Held(f)].pos, ent[f].movelimits)
         IN /\ Len(fresh) >= 2
            /\ fresh[1].pos = ent[f].pos
            /\ \A rand \in 0..5 :
                 LET r == FishUpdate(ent, children, f, rand)
                 IN /\ r.ret /\ ~r.raised
                    /\ r.ent[f].pos = fresh[2].pos
                    /\ r.ent[f].heading = fresh[2].heading
                    /\ r.ent[f].path = SubSeq(fresh, 3, Len(fresh))
                    /\ r.ent[f].target = Held(f)
            /\ ent'[f].pos = clamp([ent[f] EXCEPT !.pos = fresh[2].pos]).pos
            /\ ent'[f].path = SubSeq(fresh, 3, Len(fresh))
            /\ children' = children]_vars

\* C23's case: a fish that came with a target and an older path of several
\* entries has moved to another cell and holds what is left of a fresh path
C23_SteppedTowardTarget ==
    /\ pc = "update" /\ did.child \in FishIds
    /\ did.pursued # None
    /\ before.ent[did.child].target = did.pursued
    /\ ~before.ent[did.child].skip_frame
    /\ Len(before.ent[did.child].path) > 1
    /\ ent[did.child].pos # before.ent[did.child].pos
    /\ ent[did.child].path # Tail(Tail(before.ent[did.child].path))

\* the fish the loop is about to update has an empty path and holds no target
\* once lines 346-352 have run
AtLeisure ==
    /\ Held(children[idx]) = None
    /\ Len(ent[children[idx]].path) = 0

\* the heading of entry i (counted from 0) of an idle path of a fish of
\* heading h: flipped once for every multiple of 3 in 0..i
IdleHeading(h, i) ==
    IF Cardinality({j \in 0..i : j % 3 = 0}) % 2 = 1 THEN -h ELSE h

\* C24: for a fish with no target and an empty path, Fish.update with a draw
\* c < 4 keeps the position, makes the path c entries at that position, the
\* heading flipped at the indices that are multiples of 3, and returns True;
\* with c = 4 or 5 it returns False and leaves the path empty
C24_IdlePathOrFailure ==
    [][UpdateFish /\ AtLeisure =>
         LET f == children[idx]
         IN /\ \A c \in 0..5 :
                 LET r == FishUpdate(ent, children, f, c)
                 IN /\ ~r.raised
                    /\ r.ent[f].pos = ent[f].pos
                    /\ r.ent[f].heading = ent[f].heading
                    /\ r.children = children
                    /\ IF c < 4
                       THEN /\ r.ret
                            /\ Len(r.ent[f].path) = c
                            /\ \A i \in 1..c :
                                 /\ r.ent[f].path[i].pos = ent[f].pos
                                 /\ r.ent[f].path[i].heading =
                                      IdleHeading(ent[f].heading, i - 1)
                       ELSE /\ ~r.ret
                            /\ r.ent[f].path = <<>>
            /\ ent'[f].pos = clamp(ent[f]).pos
            /\ \/ /\ Len(ent'[f].path) < 4
                  /\ \A i \in 1..Len(ent'[f].path) :
                       /\ ent'[f].path[i].pos = ent'[f].pos
                       /\ ent'[f].path[i].heading = -ent[f].heading
               \/ \E dest \in Destinations(ent[f]) :
                    ent'[f].path = update_path(ent[f].pos, dest, ent[f].movelimits)]_vars

\* C24's case: a fish that had no target and no path has been given an idle
\* path of three entries, each with the heading flipped, and has kept its own
C24_IdlesThreeSteps ==
    /\ pc = "update" /\ did.child \in FishIds
    /\ did.pursued = None /\ did.consumed = None
    /\ before.ent[did.child].path = <<>>
    /\ before.ent[did.child].target = None
    /\ Len(ent[did.child].path) = 3
    /\ \A i \in 1..3 :
         /\ ent[did.child].path[i].pos = ent[did.child].pos
         /\ ent[did.child].path[i].heading = -ent[did.child].heading

\* the loop has just given the fish it updated a new destination
\* (lines 619-621)
Redirected == pc = "update" /\ did.child \in FishIds /\ did.planned # <<>>

\* C25: every destination the Aquarium computes for a fish whose update
\* returned False lies in the fish's vertical band: its row offset from
\* pos.ycoord is at least lower_bound * height and at most upper_bound * height
\* (the bounds are held in percent)
C25_DestinationInBand ==
    Redirected =>
        LET cfg == Species[ent[did.child].species]
            offset == did.planned[1].ycoord - pos.ycoord
        IN /\ 100 * offset >= cfg.lower_bound * height
           /\ 100 * offset <= cfg.upper_bound * height

\* the loop has just updated a Food
FoodUpdated == pc = "update" /\ did.child \in FoodIds

\* C26: after Food.update on a food of lifetime n the colour index of its skin
\* is max(237, 255 - floor(n / 3)); it is never below 237
C26_ColorIsFlooredThird ==
    FoodUpdated =>
        /\ ent[did.child].color =
             Max(237, 255 - before.lifetime[did.child] \div 3)
        /\ ent[did.child].color >= 237

\* the Food the loop is about to update has no endpoint
Unregistered == ent[children[idx]].endpoint = <<>>

\* C27: Food.update on a Food without endpoint returns False, whatever the
\* draws, leaving position, is_static and _previous_horizontal as they were
\* and raising nothing, and Aquarium.update removes the food from the
\* collection; Aquarium.add gives every Food an endpoint, no step takes it
\* away, and a Food with an endpoint is not removed by its update
C27_UnregisteredFoodIsRemoved ==
    [][/\ UpdateFood /\ Unregistered =>
            LET c == children[idx]
            IN /\ \A horizontal \in (-1)..1, vertical \in {0, 1} :
                    LET r == FoodUpdate(ent, children, c, horizontal, vertical)
                    IN /\ ~r.ret
                       /\ r.ent[c].pos = ent[c].pos
                       /\ r.ent[c].is_static = ent[c].is_static
                       /\ r.ent[c].previous_horizontal = ent[c].previous_horizontal
               /\ ~raised'
               /\ children' = Remove(children, c)
               /\ ~IsIn(c, children')
               /\ ent'[c].is_static = ent[c].is_static
               /\ ent'[c].previous_horizontal = ent[c].previous_horizontal
       /\ UpdateFood /\ ~Unregistered => children' = children
       /\ \A p \in PondPositions :
            AddFood(from_tuple(p)) =>
              ent'[Len(ent) + 1].endpoint = <<pos.ycoord + height - 1>>
       /\ \A e \in FoodIds :
            ent[e].endpoint # <<>> => ent'[e].endpoint = ent[e].endpoint]_vars

\* C27's case: the loop has removed a Food that had no endpoint and that lay
\* above the bottom row, while a Food that came through add stays a child
C27_StrayRemovedAddedKept ==
    /\ FoodUpdated
    /\ ent[did.child].endpoint = <<>>
    /\ ent[did.child].pos.ycoord < pos.ycoord + height - 1
    /\ ~IsIn(did.child, children)
    /\ IsIn(did.child, before.children)
    /\ \E e \in FoodIds \cap Children :
         ent[e].endpoint # <<>> /\ IsIn(e, visited)

\* C28: a Food whose row is >= its endpoint is_static after its next update;
\* a Food that is_static stays so in every later state, its own update never
\* changes its position, and it leaves the collection only when a fish
\* consumes it
C28_RestingIsAbsorbing ==
    [][/\ UpdateFood /\ ~Unregistered =>
            LET c == children[idx]
            IN /\ ent[c].pos.ycoord >= ent[c].endpoint[1] => ent'[c].is_static
               /\ ent[c].is_static =>
                    \A horizontal \in (-1)..1, vertical \in {0, 1} :
                       LET r == FoodUpdate(ent, children, c, horizontal, vertical)
                       IN /\ r.ret
                          /\ r.ent[c].pos = ent[c].pos
                          /\ r.moved = <<>>
       /\ \A e \in FoodIds :
            ent[e].is_static =>
              /\ ent'[e].is_static
              /\ IsIn(e, children) /\ ~IsIn(e, children') =>
                   /\ UpdateFish
                   /\ did'.consumed = e]_vars

\* C28's case: a fish has just eaten a Food that was resting on the row of
\* its endpoint and had been updated more than once
C28_RestingFoodEaten ==
    /\ pc = "update" /\ did.child \in FishIds
    /\ did.consumed \in FoodIds /\ did.present
    /\ ent[did.consumed].is_static
    /\ ent[did.consumed].pos.ycoord = ent[did.consumed].endpoint[1]
    /\ ent[did.consumed].lifetime > 1
    /\ ~IsIn(did.consumed, children)

\* the displacement of the move that line 227 committed in the step
MovedBy(moved) == PosSub(moved[2], moved[1])

\* C29: every move a sinking Food commits changes x by -1, 0 or +1 and y by
\* 0 or +1, and of two consecutive committed moves of one Food at most one
\* has a horizontal part: _previous_horizontal is the horizontal part of the
\* last committed move (0 before the first), only a committed move changes
\* it, and a move with a horizontal part is committed only when it is 0
C29_DriftAlternates ==
    [][/\ UpdateFood /\ did'.moved # <<>> =>
            LET c == children[idx]
                by == MovedBy(did'.moved)
            IN /\ did'.moved[1] = ent[c].pos
               /\ by.xcoord \in {-1, 0, 1}
               /\ by.ycoord \in {0, 1}
               /\ by.xcoord # 0 => ent[c].previous_horizontal = 0
               /\ ent'[c].previous_horizontal = by.xcoord
               /\ ~ent[c].is_static /\ ~ent'[c].is_static
       /\ \A e \in FoodIds :
            ent'[e].previous_horizontal # ent[e].previous_horizontal =>
              /\ UpdateFood /\ children[idx] = e
              /\ did'.moved # <<>>
       /\ \A p \in PondPositions :
            AddFood(from_tuple(p)) =>
              ent'[Len(ent) + 1].previous_horizontal = 0]_vars

\* C29's case: a Food that had moved sideways on its row has, at its next
\* update, sunk one row straight down
C29_SidewaysThenDown ==
    /\ FoodUpdated
    /\ did.moved # <<>>
    /\ before.ent[did.child].previous_horizontal # 0
    /\ before.ent[did.child].lifetime = 1
    /\ before.ent[did.child].pos.ycoord = pos.ycoord
    /\ MovedBy(did.moved) = Position(0, 1)

\* the least whole number that is >= n * poi_update_percent
Budget(n) == (n + poi_update_inverse - 1) \div poi_update_inverse

\* the step is a call of get_poi that drew a new point: only then is
\* _poi_calls 1 after the call
Redraws == GetPoi /\ poi'.calls = 1

FishWithin == {f \in Survivors \cap FishIds : InBounds(before.ent[f])}

\* C31: a fish that is within the bounds of the tank when update() is called
\* is, when update() returns, at most 1 away in x and at most 1 away in y from
\* where it was, whatever its update did (followed its path, pursued with
\* the extra step, idled, consumed, was given a new path)
C31_OneCellPerTick ==
    pc = "updated" =>
        \A f \in FishWithin :
            /\ Abs(ent[f].pos.xcoord - before.ent[f].pos.xcoord) <= 1
            /\ Abs(ent[f].pos.ycoord - before.ent[f].pos.ycoord) <= 1

\* C31's case: update() has returned and a fish without target that was
\* following a path planned in an earlier update has moved one cell down and
\* one cell sideways
C31_FollowedPathDiagonally ==
    /\ pc = "updated"
    /\ \E f \in FishWithin :
         /\ before.ent[f].target = None /\ ent[f].target = None
         /\ Len(before.ent[f].path) > 1
         /\ ent[f].path = Tail(before.ent[f].path)
         /\ Abs(ent[f].pos.xcoord - before.ent[f].pos.xcoord) = 1
         /\ ent[f].pos.ycoord = before.ent[f].pos.ycoord + 1

\* some fish holds a target / no fish holds one (the pair has one fish)
HoldsTarget == \E f \in FishIds : ent[f].target # None
HoldsNoTarget == \A f \in FishIds : ent[f].target = None

\* C32: while update() keeps being called and the draws are fair, a fish that
\* holds a target eventually holds none, wherever the food sinks or rests
C32_TargetEventuallyDropped == HoldsTarget ~> HoldsNoTarget

\* C33: after any sequence of add, move and update, every Food of the
\* collection has as endpoint the bottom row of the tank where it is now,
\* pos.ycoord + height - 1
C33_EndpointIsBottomRow ==
    \A e \in FoodIds \cap Children : ent[e].endpoint = <<RestingRow>>

\* the foods of the collection that the step takes out of it
Leaving == {e \in FoodIds \cap Children : ~IsIn(e, children')}

\* C34: a Food that Aquarium.add put into the collection leaves it during
\* update() only by being eaten: the step that removes it is the update of a
\* fish that holds it as target and is within distance 1 of it, and it
\* removes nothing else
C34_RemovedOnlyByConsumption ==
    [][/\ pc = "update" =>
            \A e \in Leaving :
               /\ ent[e].endpoint # <<>>
               /\ UpdateFish
               /\ Held(children[idx]) = e
               /\ distance_to_le(ent[children[idx]].pos, ent[e].pos, 1)
               /\ children' = Remove(children, e)
       /\ UpdateFood => children' = children]_vars

\* C34's case: of two fish that held the same Food as target, one has just
\* eaten it while it was still sinking; the other still holds it
C34_EatenUnderAnotherFish ==
    /\ pc = "update" /\ did.child \in FishIds
    /\ did.consumed \in FoodIds /\ did.present
    /\ ~IsIn(did.consumed, children)
    /\ ~ent[did.consumed].is_static
    /\ \E g \in FishIds \cap Children :
         g # did.child /\ ent[g].target = did.consumed

\* the child of the step of update() in hand, and the entities that step is
\* not about
InHand == children[idx]
Others == Ids \ {InHand}

\* C35: clamping or updating one entity never changes the position of any
\* other entity or any entry of another fish's planned path, also when the
\* entities were constructed with the default position: a step of update()
\* that handles one child leaves the position and the path of every other
\* entity as they were
C35_OthersKeepPositionAndPath ==
    [][(pc = "update" /\ (UpdateFish \/ UpdateFood)) =>
          \A e \in Others :
             /\ ent'[e].pos = ent[e].pos
             /\ ent[e].kind = "Fish" => ent'[e].path = ent[e].path]_vars

====
